---- MODULE Spec2Model ----
(***************************************************************************)
(* A model of the interpolation engine of sequence-to-formula:             *)
(* src/utils.js (factorial, fallingFactorial) and src/sequence.js (class   *)
(* Sequence: constructor, _computeCoefficient, _interpolate, getNthTerm,   *)
(* toFormula, toLatex).                                                    *)
(*                                                                         *)
(* JavaScript numbers are modelled as exact rationals p/q in lowest terms, *)
(* together with the two non-numeric outcomes the code can produce:        *)
(* undefined (a read of an array hole or past the end of an array) and NaN *)
(* (arithmetic on undefined).  The inputs of the model are integers and    *)
(* halves and every position n is an integer, so every quotient the code   *)
(* forms is a dyadic rational that a double represents exactly: on the     *)
(* states of this model exact arithmetic and double arithmetic agree.      *)
(***************************************************************************)
EXTENDS Integers, Sequences, FiniteSets, TLC

VARIABLES pc, terms, coefficients, i, call, ret, console

vars == <<pc, terms, coefficients, i, call, ret, console>>

(***************************************************************************)
(* Bounds of the model.                                                    *)
(***************************************************************************)
\* Longest term list drawn from TermPool / longest polynomial coefficient list.
MaxLen == 3
\* Positions n range over -MaxNeg .. MaxN, and the position 10 of the
\* documented example getNthTerm(10).
MaxNeg == 2
MaxN == 6
\* Largest argument of a direct call of factorial.
MaxFact == 6
\* Largest length argument of a direct call of fallingFactorial.
MaxFallLen == 9
\* Lines kept in the console before toFormula is no longer called.
MaxLog == 2

NRange == ((0 - MaxNeg)..MaxN) \cup {10}

(***************************************************************************)
(* JavaScript values: numbers (exact rationals), undefined, NaN.           *)
(***************************************************************************)
Abs(x) == IF x < 0 THEN 0 - x ELSE x

RECURSIVE Gcd(_, _)
Gcd(a, b) == IF b = 0 THEN a ELSE Gcd(b, a % b)

\* The number p/q (q # 0), in lowest terms with a positive denominator.
Rat(p, q) ==
    LET g == Gcd(Abs(p), Abs(q))
        s == IF q < 0 THEN 0 - 1 ELSE 1
    IN  [k |-> "num", p |-> (s * p) \div g, q |-> (s * q) \div g]

Num(x) == [k |-> "num", p |-> x, q |-> 1]
Undefined == [k |-> "undefined", p |-> 0, q |-> 1]
NaN == [k |-> "NaN", p |-> 0, q |-> 1]

IsNum(v) == v.k = "num"
IsInteger(v) == v.k = "num" /\ v.q = 1

\* JS a - b, a + b, a * b, a / b: undefined and NaN operands give NaN.
Sub(a, b) ==
    IF IsNum(a) /\ IsNum(b) THEN Rat(a.p * b.q - b.p * a.q, a.q * b.q) ELSE NaN

Add(a, b) ==
    IF IsNum(a) /\ IsNum(b) THEN Rat(a.p * b.q + b.p * a.q, a.q * b.q) ELSE NaN

Mul(a, b) ==
    IF IsNum(a) /\ IsNum(b) THEN Rat(a.p * b.p, a.q * b.q) ELSE NaN

\* The only divisor in the code is factorial(i) >= 1; x / 0 is never formed.
Div(a, b) ==
    IF IsNum(a) /\ IsNum(b) /\ b.p # 0 THEN Rat(a.p * b.q, a.q * b.p) ELSE NaN

\* arr[j] for a 0-based JS index j: a hole or an index out of range reads undefined.
At(arr, j) == IF (j + 1) \in DOMAIN arr THEN arr[j + 1] ELSE Undefined

\* `${v}`: the string a template literal substitutes for a value.  Integers
\* print in decimal; the halves print with ".5"; other denominators do not
\* arise from the inputs of this model (see TypeOK).
Str(v) ==
    IF v.k # "num" THEN v.k
    ELSE IF v.q = 1 THEN ToString(v.p)
    ELSE IF v.q = 2
         THEN (IF v.p < 0 THEN "-" ELSE "") \o ToString(Abs(v.p) \div 2) \o ".5"
    ELSE ToString(v.p) \o "/" \o ToString(v.q)

(***************************************************************************)
(* src/utils.js                                                            *)
(***************************************************************************)
\* for (let i = 2; i <= num; i++) result *= i;
RECURSIVE factorialLoop(_, _, _)
factorialLoop(j, num, result) ==
    IF j <= num THEN factorialLoop(j + 1, num, result * j) ELSE result

\* A loop that stops one factor early (i < num).
factorialShort(num) == factorialLoop(2, num - 1, 1)

factorial(num) == factorialLoop(2, num, 1)

\* for (let i = 1; i <= length; i++) result *= n - i;
RECURSIVE fallingFactorialLoop(_, _, _, _)
fallingFactorialLoop(j, n, length, result) ==
    IF j <= length
    THEN fallingFactorialLoop(j + 1, n, length, result * (n - j))
    ELSE result

\* A loop that stops one factor early (i < length).
fallingFactorialShort(n, length) == fallingFactorialLoop(1, n, length - 1, 1)

\* The product taken from n instead of n-1: n(n-1)...(n-length+1).
fallingFactorialFromN(n, length) == fallingFactorialLoop(1, n + 1, length, 1)

fallingFactorial(n, length) == fallingFactorialLoop(1, n, length, 1)

(***************************************************************************)
(* src/sequence.js: the interpolation engine.  Term lists and coefficient  *)
(* tables are TLA+ sequences; JS index j is TLA+ index j+1 (see At).       *)
(***************************************************************************)
\* One pass of the loop body shared by _computeCoefficient and _interpolate:
\* ((terms[j] - this.coefficients[j-1]) * fallingFactorial(n, j)) / factorial(j) + result
Numerator(ts, cs, n, j) ==
    Mul(Sub(At(ts, j), At(cs, j - 1)), Num(fallingFactorial(n, j)))

Accumulate(ts, cs, n, j, result) ==
    Add(Div(Numerator(ts, cs, n, j), Num(factorial(j))), result)

RECURSIVE _computeCoefficientLoop(_, _, _, _, _, _)
_computeCoefficientLoop(ts, cs, n, j, result, coefficient) ==
    IF j < Len(ts)
    THEN LET r == Accumulate(ts, cs, n, j, result)
         IN  _computeCoefficientLoop(ts, cs, n, j + 1, r,
                                     IF j < Len(ts) - 1 THEN r ELSE coefficient)
    ELSE coefficient

\* The helper without its guard "if (i < terms.length - 1)": it returns the
\* fully accumulated result.
_computeCoefficientNoGuard(ts, cs, n) ==
    LET RECURSIVE loop(_, _)
        loop(j, result) ==
            IF j < Len(ts) THEN loop(j + 1, Accumulate(ts, cs, n, j, result))
            ELSE result
    IN  loop(1, At(ts, 0))

\* The helper keeping the value one pass too early (i < terms.length - 2).
_computeCoefficientEarly(ts, cs, n) ==
    LET RECURSIVE loop(_, _, _)
        loop(j, result, coefficient) ==
            IF j < Len(ts)
            THEN LET r == Accumulate(ts, cs, n, j, result)
                 IN  loop(j + 1, r, IF j < Len(ts) - 2 THEN r ELSE coefficient)
            ELSE coefficient
    IN  loop(1, At(ts, 0), At(ts, 0))

_computeCoefficient(ts, cs, n) ==
    _computeCoefficientLoop(ts, cs, n, 1, At(ts, 0), At(ts, 0))

RECURSIVE _interpolateLoop(_, _, _, _, _)
_interpolateLoop(ts, cs, n, j, result) ==
    IF j < Len(ts)
    THEN _interpolateLoop(ts, cs, n, j + 1, Accumulate(ts, cs, n, j, result))
    ELSE result

\* The loop started at i = 0 instead of i = 1.
_interpolateFromZero(ts, cs, n) == _interpolateLoop(ts, cs, n, 0, At(ts, 0))

\* The loop stopped one term early (i < terms.length - 1).
_interpolateShort(ts, cs, n) ==
    IF Len(ts) = 0 THEN Undefined
    ELSE _interpolateLoop(SubSeq(ts, 1, Len(ts) - 1), cs, n, 1, At(ts, 0))

_interpolate(ts, cs, n) == _interpolateLoop(ts, cs, n, 1, At(ts, 0))

\* getNthTerm = (n) => this._interpolate(...this.terms)(n)
getNthTerm(n) == _interpolate(terms, coefficients, n)

(***************************************************************************)
(* Rendering.  A template literal is a list of parts: literal text and     *)
(* substituted values.  The string returned is the concatenation of the    *)
(* parts, each value printed by Str.                                       *)
(***************************************************************************)
Lit(s) == [isVal |-> FALSE, lit |-> s, v |-> Undefined]
Val(v) == [isVal |-> TRUE, lit |-> "", v |-> v]

RECURSIVE Render(_)
Render(parts) ==
    IF parts = <<>> THEN ""
    ELSE (IF Head(parts).isVal THEN Str(Head(parts).v) ELSE Head(parts).lit)
         \o Render(Tail(parts))

\* for (let i = k - 1; i >= 1; i--) factorProduct += `(n-${k - i})`;
RECURSIVE factorProductLoop(_, _, _)
factorProductLoop(k, j, acc) ==
    IF j >= 1
    THEN factorProductLoop(k, j - 1,
                           acc \o <<Lit("(n-"), Val(Num(k - j)), Lit(")")>>)
    ELSE acc

\* factorProduct += `/${k - 1}!`;
factorProduct(k) ==
    factorProductLoop(k, k - 1, <<>>) \o <<Lit("/"), Val(Num(k - 1)), Lit("!")>>

\* The difference rendered against the previous term instead of the
\* coefficient: (terms[k-1] - terms[k-2]).
formulaTermPrevTerm(ts, cs, k) ==
    <<Lit("("), Val(At(ts, k - 1)), Lit(" - "), Val(At(ts, k - 2)), Lit(")")>>

\* formula += `(${terms[k - 1]} - ${coefficients[k - 2]})${factorProduct}`;
formulaTerm(ts, cs, k) ==
    <<Lit("("), Val(At(ts, k - 1)), Lit(" - "), Val(At(cs, k - 2)), Lit(")")>>

RECURSIVE toFormulaLoop(_, _, _, _)
toFormulaLoop(ts, cs, k, formula) ==
    IF k > 1
    THEN toFormulaLoop(ts, cs, k - 1,
                       formula \o formulaTerm(ts, cs, k) \o factorProduct(k)
                               \o (IF k > 1 THEN <<Lit(" + ")>> ELSE <<>>))
    ELSE formula

toFormulaParts(ts, cs) ==
    toFormulaLoop(ts, cs, Len(ts), <<Lit(" f(n) = ")>>) \o <<Val(At(ts, 0))>>

toFormula == Render(toFormulaParts(terms, coefficients))

\* `\\frac{\\displaystyle\\prod_{k=1}^{${k - 1}} (n - k)}{${k - 1}!}`
fractionTerm(k) ==
    <<Lit("\\frac{\\displaystyle\\prod_{k=1}^{"), Val(Num(k - 1)),
      Lit("} (n - k)}{"), Val(Num(k - 1)), Lit("!}")>>

RECURSIVE toLatexLoop(_, _, _, _)
toLatexLoop(ts, cs, k, formula) ==
    IF k > 1
    THEN toLatexLoop(ts, cs, k - 1,
                     formula \o formulaTerm(ts, cs, k) \o fractionTerm(k)
                             \o (IF k > 1 THEN <<Lit("\\\\ + ")>> ELSE <<>>))
    ELSE formula

toLatexParts(ts, cs) ==
    toLatexLoop(ts, cs, Len(ts), <<Lit(" f(n) = ")>>) \o <<Val(At(ts, 0))>>

toLatex == Render(toLatexParts(terms, coefficients))

(***************************************************************************)
(* Inputs.                                                                 *)
(***************************************************************************)
\* Terms of the freely drawn term lists: integers of both signs and a half
\* (zeros and other integers come with PolyInputs and Examples).
TermPool == {Num(0 - 1), Rat(1, 2), Num(2)}

SeqsUpTo(S, n) == UNION {[1..m -> S] : m \in 0..n}

\* Polynomials with integer coefficients, a[j] the coefficient of n^(j-1).
PolyPool == {0 - 1, 0, 2}
PolyCoefs == UNION {[1..d -> PolyPool] : d \in 1..MaxLen}

RECURSIVE PolyEvalFrom(_, _, _)
PolyEvalFrom(a, j, n) ==
    IF j > Len(a) THEN 0 ELSE a[j] + n * PolyEvalFrom(a, j + 1, n)

PolyEval(a, n) == PolyEvalFrom(a, 1, n)

\* The values of polynomial a at positions 1..m.
PolyTerms(a, m) == [j \in 1..m |-> Num(PolyEval(a, j))]

\* The first m values of each polynomial, for every m above its degree.
PolyInputs ==
    UNION {{PolyTerms(a, m) : m \in Len(a)..MaxLen} : a \in PolyCoefs}

\* The term lists of the examples in the sources: sequence.js (class and
\* method documentation, the commented-out test) and index.html.
IntTerms(xs) == [j \in 1..Len(xs) |-> Num(xs[j])]

Examples ==
    { IntTerms(<<2, 4, 6, 8>>), IntTerms(<<1, 4, 9, 16>>), IntTerms(<<1, 4, 9>>),
      IntTerms(<<10, 100, 1000>>), IntTerms(<<20, 10, 100>>), IntTerms(<<5>>) }

Inputs == SeqsUpTo(TermPool, MaxLen) \cup PolyInputs \cup Examples

(***************************************************************************)
(* The state machine: one Sequence instance from `new Sequence(...)` on.   *)
(*   pc            "new" before the constructor runs, "constructing" while *)
(*                 its loop runs, "ready" once it has returned             *)
(*   terms         this.terms                                              *)
(*   coefficients  this.coefficients; a hole is Undefined                  *)
(*   i             the constructor's loop variable                         *)
(*   call, ret     the last call made and the value it returned            *)
(*   console       the lines written by console.log                        *)
(***************************************************************************)
\* A returned string is kept with the parts it was built from.
NoRet == [type |-> "none", num |-> Undefined, str |-> "", parts |-> <<>>]
NumRet(v) == [type |-> "number", num |-> v, str |-> "", parts |-> <<>>]
StrRet(parts) ==
    [type |-> "string", num |-> Undefined, str |-> Render(parts), parts |-> parts]

Init ==
    /\ pc = "new"
    /\ terms = <<>>
    /\ coefficients = <<>>
    /\ i = 0
    /\ call = [op |-> "none", args |-> <<>>]
    /\ ret = NoRet
    /\ console = <<>>

\* constructor(...terms), up to the first test of the loop condition:
\* this.terms = terms; this.coefficients = new Array(terms.length); let i = 1
Construct(ts) ==
    /\ pc = "new"
    /\ terms' = ts
    /\ coefficients' = [j \in 1..Len(ts) |-> Undefined]
    /\ i' = 1
    /\ pc' = IF 1 < Len(ts) THEN "constructing" ELSE "ready"
    /\ call' = [op |-> "Sequence", args |-> <<>>]
    /\ UNCHANGED <<ret, console>>

\* The value evaluated at position i instead of i + 1.
ConstructStepValueAtI ==
    _computeCoefficient(SubSeq(terms, 1, i + 1), coefficients, i)

\* this._computeCoefficient(...terms.slice(0, i + 1))(i + 1)
ConstructStepValue ==
    _computeCoefficient(SubSeq(terms, 1, i + 1), coefficients, i + 1)

\* One pass of the constructor's loop:
\* this.coefficients[i - 1] = this._computeCoefficient(...terms.slice(0, i + 1))(i + 1); i++
ConstructStep ==
    /\ pc = "constructing"
    /\ coefficients' = [coefficients EXCEPT ![i] = ConstructStepValue]
    /\ i' = i + 1
    /\ pc' = IF i + 1 < Len(terms) THEN "constructing" ELSE "ready"
    /\ UNCHANGED <<terms, call, ret, console>>

\* getNthTerm writing its result into the last, unused slot of the table.
GetNthTermCaching(n) ==
    /\ pc = "ready"
    /\ call' = [op |-> "getNthTerm", args |-> <<n>>]
    /\ ret' = NumRet(getNthTerm(n))
    /\ coefficients' = [j \in DOMAIN coefficients |->
                          IF j = Len(coefficients) THEN getNthTerm(n)
                          ELSE coefficients[j]]
    /\ UNCHANGED <<pc, terms, i, console>>

GetNthTerm(n) ==
    /\ pc = "ready"
    /\ call' = [op |-> "getNthTerm", args |-> <<n>>]
    /\ ret' = NumRet(getNthTerm(n))
    /\ UNCHANGED <<pc, terms, coefficients, i, console>>

\* toFormula(): builds the string, console.log(formula), return formula
ToFormula ==
    /\ pc = "ready"
    /\ Len(console) < MaxLog
    /\ call' = [op |-> "toFormula", args |-> <<>>]
    /\ ret' = StrRet(toFormulaParts(terms, coefficients))
    /\ console' = Append(console, toFormula)
    /\ UNCHANGED <<pc, terms, coefficients, i>>

ToLatex ==
    /\ pc = "ready"
    /\ call' = [op |-> "toLatex", args |-> <<>>]
    /\ ret' = StrRet(toLatexParts(terms, coefficients))
    /\ UNCHANGED <<pc, terms, coefficients, i, console>>

Next ==
    \/ \E ts \in Inputs : Construct(ts)
    \/ ConstructStep
    \/ \E n \in NRange : GetNthTerm(n)
    \/ ToFormula
    \/ ToLatex

Spec == Init /\ [][Next]_vars

(***************************************************************************)
(* The arithmetic primitives called on their own (src/utils.js defines     *)
(* them as globals).                                                       *)
(***************************************************************************)
CallFactorial(num) ==
    /\ call' = [op |-> "factorial", args |-> <<num>>]
    /\ ret' = NumRet(Num(factorial(num)))
    /\ UNCHANGED <<pc, terms, coefficients, i, console>>

CallFallingFactorial(n, length) ==
    /\ call' = [op |-> "fallingFactorial", args |-> <<n, length>>]
    /\ ret' = NumRet(Num(fallingFactorial(n, length)))
    /\ UNCHANGED <<pc, terms, coefficients, i, console>>

NextUtils ==
    \/ \E num \in 0..MaxFact : CallFactorial(num)
    \/ \E n \in NRange, length \in 0..MaxFallLen : CallFallingFactorial(n, length)

SpecUtils == Init /\ [][NextUtils]_vars

\* Every stored or returned number is an integer or a half, the values Str prints.
Printable(v) == v.k = "num" => v.q \in {1, 2}

TypeOK ==
    /\ pc \in {"new", "constructing", "ready"}
    /\ \A j \in DOMAIN terms : IsNum(terms[j]) /\ Printable(terms[j])
    /\ \A j \in DOMAIN coefficients : Printable(coefficients[j])
    /\ Len(coefficients) = Len(terms)
    /\ Printable(ret.num)
    /\ Len(console) <= MaxLog

(***************************************************************************)
(* Properties.                                                             *)
(***************************************************************************)
\* The position of the last getNthTerm call.
CalledGetNthTerm == pc = "ready" /\ call.op = "getNthTerm"
LastN == call.args[1]

\* C1. Interpolation identity: on a Sequence built from m >= 1 numeric terms,
\* getNthTerm(n) for a position n in 1..m returns exactly the term given for
\* that position, t[n-1].
C1_InterpolationIdentity ==
    (CalledGetNthTerm /\ LastN \in 1..Len(terms)) => ret.num = terms[LastN]

\* getNthTerm(3) on Sequence(20, 10, 100) has returned 100.
C1_Witness ==
    /\ CalledGetNthTerm
    /\ terms = IntTerms(<<20, 10, 100>>)
    /\ LastN = 3
    /\ ret.num = Num(100)

\* C2. Polynomial reproduction: when the m terms are the values at 1..m of a
\* polynomial p of degree at most m-1, getNthTerm(n) = p(n) for every integer
\* n, inside and outside 1..m; in particular Sequence(2,4,6,8) gives 2n and
\* Sequence(1,4,9,16) gives 25 at n = 5 and 100 at n = 10.
C2_PolynomialReproduction ==
    CalledGetNthTerm =>
        /\ \A a \in PolyCoefs :
              (Len(a) <= Len(terms) /\ terms = PolyTerms(a, Len(terms)))
                  => ret.num = Num(PolyEval(a, LastN))
        /\ terms = IntTerms(<<2, 4, 6, 8>>) => ret.num = Num(2 * LastN)
        /\ terms = IntTerms(<<1, 4, 9, 16>>) => ret.num = Num(LastN * LastN)

\* getNthTerm(10) on Sequence(1, 4, 9, 16) has returned 100.
C2_Witness ==
    /\ CalledGetNthTerm
    /\ terms = IntTerms(<<1, 4, 9, 16>>)
    /\ LastN = 10
    /\ ret.num = Num(100)

\* C5. Single-term sequence: a Sequence built from exactly one term t holds no
\* coefficient (the table's only slot is never written), and getNthTerm(n)
\* returns t for every n.
C5_SingleTerm ==
    (pc # "new" /\ Len(terms) = 1) =>
        /\ pc = "ready"
        /\ \A j \in DOMAIN coefficients : coefficients[j] = Undefined
        /\ call.op = "getNthTerm" => ret.num = terms[1]

\* getNthTerm(-2) on Sequence(5) has returned 5.
C5_Witness ==
    /\ CalledGetNthTerm
    /\ terms = IntTerms(<<5>>)
    /\ LastN = 0 - 2
    /\ ret.num = Num(5)

\* C6. Zero-term construction is rejected: new Sequence() fails instead of
\* yielding an instance on which getNthTerm, toFormula and toLatex can be
\* called.
C6_ZeroTermsRejected == (call.op # "none" /\ Len(terms) = 0) => pc # "ready"

\* Reference definitions of k! and of (n-1)(n-2)...(n-length).
RECURSIVE Fact(_)
Fact(k) == IF k = 0 THEN 1 ELSE k * Fact(k - 1)

RECURSIVE Prod(_, _)
Prod(n, length) == IF length = 0 THEN 1 ELSE Prod(n, length - 1) * (n - length)

\* C8. Arithmetic primitives: fallingFactorial(n, length) is the product of
\* the length factors (n-1)(n-2)...(n-length) for every integer n and every
\* length >= 0 (1 when length = 0; 24 for (5, 3)), and factorial(k) is k! for
\* every k >= 0 (1 for 0 and 1, 120 for 5).
C8_ArithmeticPrimitives ==
    /\ call.op = "factorial" =>
          /\ ret.num = Num(Fact(call.args[1]))
          /\ call.args[1] \in {0, 1} => ret.num = Num(1)
          /\ call.args[1] = 5 => ret.num = Num(120)
    /\ call.op = "fallingFactorial" =>
          /\ ret.num = Num(Prod(call.args[1], call.args[2]))
          /\ call.args[2] = 0 => ret.num = Num(1)
          /\ call.args = <<5, 3>> => ret.num = Num(24)

\* fallingFactorial(-2, 3) has returned (-3)(-4)(-5) = -60.
C8_Witness ==
    /\ call = [op |-> "fallingFactorial", args |-> <<0 - 2, 3>>]
    /\ ret.num = Num(0 - 60)

\* The arithmetic reading of a rendered plain-text formula at position n: the
\* parts after " f(n) = " are read as a sum of terms
\*     ( a - b ) (n-j1) ... (n-jr) / d !     joined by " + "
\* and closed by a constant; text of any other shape has no value (NaN).
RECURSIVE EvalFactors(_, _, _, _)
EvalFactors(parts, pos, n, acc) ==
    IF pos + 2 <= Len(parts) /\ parts[pos] = Lit("(n-") /\ parts[pos + 1].isVal
       /\ parts[pos + 2] = Lit(")")
    THEN EvalFactors(parts, pos + 3, n, Mul(acc, Sub(Num(n), parts[pos + 1].v)))
    ELSE [value |-> acc, pos |-> pos]

RECURSIVE EvalTerms(_, _, _)
EvalTerms(parts, pos, n) ==
    IF pos = Len(parts) /\ parts[pos].isVal THEN parts[pos].v
    ELSE IF pos + 4 <= Len(parts) /\ parts[pos] = Lit("(") /\ parts[pos + 1].isVal
            /\ parts[pos + 2] = Lit(" - ") /\ parts[pos + 3].isVal
            /\ parts[pos + 4] = Lit(")")
    THEN LET f == EvalFactors(parts, pos + 5, n, Num(1))
             q == f.pos
         IN  IF q + 3 <= Len(parts) /\ parts[q] = Lit("/") /\ parts[q + 1].isVal
                /\ IsInteger(parts[q + 1].v) /\ parts[q + 1].v.p >= 0
                /\ parts[q + 2] = Lit("!") /\ parts[q + 3] = Lit(" + ")
             THEN Add(Div(Mul(Sub(parts[pos + 1].v, parts[pos + 3].v), f.value),
                          Num(Fact(parts[q + 1].v.p))),
                      EvalTerms(parts, q + 4, n))
             ELSE NaN
    ELSE NaN

EvalFormula(parts, n) ==
    IF Len(parts) >= 2 /\ parts[1] = Lit(" f(n) = ") THEN EvalTerms(parts, 2, n)
    ELSE NaN

\* C3. Formula/value consistency: for every integer n, the formula returned by
\* toFormula(), read arithmetically -- the sum for k = m down to 2 of
\* (t[k-1] - c[k-2]) (n-1)...(n-(k-1)) / (k-1)!, plus the constant t[0] --
\* has the value getNthTerm(n).
C3_FormulaValueConsistency ==
    (pc = "ready" /\ call.op = "toFormula") =>
        \A n \in NRange : EvalFormula(ret.parts, n) = getNthTerm(n)

\* toFormula() on Sequence(10, 100, 1000) has returned its three-term formula.
C3_Witness ==
    /\ pc = "ready" /\ call.op = "toFormula"
    /\ terms = IntTerms(<<10, 100, 1000>>)
    /\ ret.str = " f(n) = (1000 - 190)(n-1)(n-2)/2! + (100 - 10)(n-1)/1! + 10"
    /\ EvalFormula(ret.parts, 4) = Num(2710)

C4_Immutability ==
    [][pc = "ready" =>
          /\ pc' = "ready"
          /\ terms' = terms
          /\ coefficients' = coefficients
          /\ call'.op = "toFormula" => ret'.str = console'[1]
          /\ call' = call => ret' = ret]_vars

\* Sequence(10, 100, 1000) after two toFormula() calls and a getNthTerm call.
C4_Witness ==
    /\ CalledGetNthTerm
    /\ Len(console) = 2
    /\ terms = IntTerms(<<10, 100, 1000>>)
    /\ coefficients = <<Num(10), Num(190), Undefined>>

\* The coefficient table new Sequence(...ts) is left with: the constructor's
\* loop run to its end.
RECURSIVE constructorLoop(_, _, _)
constructorLoop(ts, cs, j) ==
    IF j < Len(ts)
    THEN constructorLoop(ts,
             [cs EXCEPT ![j] = _computeCoefficient(SubSeq(ts, 1, j + 1), cs, j + 1)],
             j + 1)
    ELSE cs

NewSequence(ts) == constructorLoop(ts, [j \in 1..Len(ts) |-> Undefined], 1)

\* The table with every slot the constructor has not written yet holding v.
Filled(v) == [j \in DOMAIN coefficients |-> IF j < i THEN coefficients[j] ELSE v]

\* C9. Coefficient construction: c[0] = t[0] and, for k in 1..m-1, c[k-1] is
\* the value at position k+1 of the interpolation built from the first k terms
\* alone, Sequence(t[0..k-1]).getNthTerm(k+1); so c[k-1] does not depend on
\* t[k] or later terms, and the value a construction pass stores depends only
\* on the coefficients written by earlier passes.  Terms 10, 100, 1000 give
\* c[0] = 10 and c[1] = 190.
C9_CoefficientConstruction ==
    /\ \A k \in 1..(Len(terms) - 1) :
          (pc # "new" /\ k < i) =>
              /\ coefficients[k]
                   = _interpolate(SubSeq(terms, 1, k),
                                  NewSequence(SubSeq(terms, 1, k)), k + 1)
              /\ k = 1 => coefficients[1] = terms[1]
    /\ pc = "constructing" =>
          \A v \in TermPool \cup {NaN} :
              _computeCoefficient(SubSeq(terms, 1, i + 1), Filled(v), i + 1)
                  = ConstructStepValue
    /\ (pc = "ready" /\ terms = IntTerms(<<10, 100, 1000>>)) =>
          coefficients[1] = Num(10) /\ coefficients[2] = Num(190)

\* Sequence(-1, 2, 1/2) constructed: c[0] = -1, c[1] = 5.
C9_Witness ==
    /\ pc = "ready"
    /\ terms = <<Num(0 - 1), Num(2), Rat(1, 2)>>
    /\ coefficients[1] = Num(0 - 1)
    /\ coefficients[2] = Num(5)
    /\ call.op = "Sequence"

AllInt(ts) == \A j \in DOMAIN ts : IsInteger(ts[j])
IsMultiple(v, d) == IsInteger(v) /\ v.p % d = 0

\* The divisions of getNthTerm(n) are exact and its result is an integer.
InterpolateExact ==
    CalledGetNthTerm =>
        /\ \A j \in 1..(Len(terms) - 1) :
              IsMultiple(Numerator(terms, coefficients, LastN, j), factorial(j))
        /\ IsInteger(ret.num)

\* The coefficients stored so far are integers.
StoredIntegers == \A k \in 1..(Len(terms) - 1) : k < i => IsInteger(coefficients[k])

\* C10 as stated: with integer terms, every division by factorial(i) performed
\* in _computeCoefficient and in _interpolate is exact, the numerator
\* (t[i] - c[i-1]) * fallingFactorial(n, i) being a multiple of i!, so every
\* stored coefficient and every getNthTerm(n) result is an integer.
C10_EveryDivisionExact ==
    (Len(terms) >= 1 /\ AllInt(terms)) =>
        /\ pc = "constructing" =>
              \A j \in 1..i :
                  IsMultiple(Numerator(SubSeq(terms, 1, i + 1), coefficients, i + 1, j),
                             factorial(j))
        /\ InterpolateExact
        /\ StoredIntegers

\* C10, amended. With integer terms and integer n, every division by
\* factorial(i) whose quotient is kept is exact: all those of _interpolate,
\* and in _computeCoefficient those of every pass but the last.  The last pass
\* reads the coefficient slot the constructor has not written yet, so its
\* numerator is NaN and its quotient is discarded.  Every stored coefficient
\* and every getNthTerm(n) result is an integer.
C10_KeptDivisionsExact ==
    (Len(terms) >= 1 /\ AllInt(terms)) =>
        /\ pc = "constructing" =>
              /\ \A j \in 1..(i - 1) :
                    IsMultiple(Numerator(SubSeq(terms, 1, i + 1), coefficients, i + 1, j),
                               factorial(j))
              /\ Numerator(SubSeq(terms, 1, i + 1), coefficients, i + 1, i) = NaN
              /\ IsInteger(ConstructStepValue)
        /\ InterpolateExact
        /\ StoredIntegers

\* getNthTerm(-2) on Sequence(20, 10, 100) has returned the integer 650.
C10_Witness ==
    /\ CalledGetNthTerm
    /\ terms = IntTerms(<<20, 10, 100>>)
    /\ LastN = 0 - 2
    /\ ret.num = Num(650)

====
